---- MODULE Spec2Model ----
(***************************************************************************)
(* calcite-panel (components/panel/panel.tsx): the close/open sequencer,   *)
(* the slot presence flags, the hidden attributes the render methods       *)
(* derive from them and the scroll affordance of the content wrapper.      *)
(* calcite-input-time-zone as its end-to-end test                          *)
(* (components/input-time-zone/input-time-zone.e2e.ts) drives it.          *)
(***************************************************************************)
EXTENDS Integers, Sequences, FiniteSets, TLC

VARIABLES
    closed,        \* @Prop closed
    isClosed,      \* @State isClosed
    beforeClose,   \* @Prop beforeClose: "none" (undefined) or "custom"
    closable,      \* @Prop closable
    collapsible,   \* @Prop collapsible
    collapsed,     \* @Prop collapsed
    heading,       \* @Prop heading
    description,   \* @Prop description
    pending,       \* close() calls suspended at `await beforeClose()`
    rafQueue,      \* callbacks handed to requestAnimationFrame, not yet run
    flags,         \* the @State has* presence flags
    assigned,      \* elements currently assigned to each named slot
    slotchange,    \* slots whose slotchange event is queued, not yet delivered
    panelScrollEl, \* the element setPanelScrollEl stored last, or Null
    scrollHeight,  \* scrollHeight of the content wrapper
    offsetHeight,  \* offsetHeight of the content wrapper
    tabindex,      \* tabindex attribute of the content wrapper, Null when absent
    observing,     \* resizeObserver has the content wrapper as a target
    connected,     \* the panel is attached to a document
    dom,           \* hidden attributes produced by the last render()
    step,          \* the handler that ran last
    events,        \* events emitted by the handler that ran last
    keyEvent,      \* the key event handled last: key, defaultPrevented before and after
    settled,       \* the close() call that resumed last, and how its guard settled
    clicks,        \* the latest consecutive clicks on the collapse action
    prev,          \* closed, isClosed and tabindex as they were before the handler that ran last
    loaded,        \* the test page holds a calcite-input-time-zone
    timeZone,      \* the time zone the page emulates: an index of testTimeZoneItems
    mode,          \* calcite-input-time-zone mode
    clearable,     \* calcite-input-time-zone clearable
    inputValue,    \* calcite-input-time-zone value
    selectedItem,  \* the calcite-combobox-item[selected]: an index, or NoItem
    request        \* the last operation of the test page, with inputValue and selectedItem before it

panelVars == <<closed, isClosed, beforeClose, closable, collapsible, collapsed,
               heading, description, pending, rafQueue, flags, assigned,
               slotchange, panelScrollEl, scrollHeight, offsetHeight, tabindex,
               observing, connected, dom, step, events, keyEvent, settled, clicks,
               prev>>
inputVars == <<loaded, timeZone, mode, clearable, inputValue, selectedItem, request>>
vars == <<panelVars, inputVars>>

sequencerVars == <<closed, isClosed, pending, rafQueue>>
propVars == <<beforeClose, closable, collapsible, collapsed, heading, description>>
slotVars == <<flags, assigned, slotchange>>
scrollVars == <<panelScrollEl, scrollHeight, offsetHeight, tabindex, observing,
                connected>>

----------------------------------------------------------------------------
(* Bounds *)

MaxPending == 2      \* close() calls awaiting their guard at one time
MaxRaf == 2          \* animation-frame callbacks queued at one time
MaxElements == 2     \* elements slotted into the panel at one time
MaxSlotChanges == 1  \* slotchange events queued at one time
MaxClicks == 2       \* consecutive clicks on the collapse action remembered
MaxHeight == 2       \* largest scrollHeight / offsetHeight of the content wrapper

----------------------------------------------------------------------------
(* Values *)

Keys == {"Escape", "Enter"}
Headings == {"", "Heading"}
Descriptions == {"", "Description"}
Guards == {"none", "custom"}
Layouts == {"vertical", "horizontal"}
NoSettled == [user |-> FALSE, notified |-> FALSE, outcome |-> "none"]
UserCloseSteps == {"clickClose", "panelKeyDownHandler"}
NoKeyEvent == [key |-> "", was |-> FALSE, defaultPrevented |-> FALSE]

Truthy(s) == s # ""

\* null / a removed attribute
Null == "null"
ContentWrapper == "contentWrapper"
\* a measurement that is not a number (an element without layout)
Undefined == -1
Measurements == (0..MaxHeight) \cup {Undefined}
typeof(x) == IF x = Undefined THEN "undefined" ELSE "number"

\* the time zones of the end-to-end test
testTimeZoneItems ==
    << [name |-> "America/Mexico_City", offset |-> -360, label |-> "GMT-6"],
       [name |-> "America/Phoenix", offset |-> -420, label |-> "GMT-7"],
       [name |-> "Pacific/Guam", offset |-> 600, label |-> "GMT+10"],
       [name |-> "Pacific/Galapagos", offset |-> -360, label |-> "GMT-6"] >>
Items == DOMAIN testTimeZoneItems
NoItem == 0
Modes == {"offset", "name", "region"}
\* the value that stands for item i: `${offset}` in offset mode, the name otherwise
valueOf(i, m) ==
    IF m = "offset" THEN ToString(testTimeZoneItems[i].offset)
    ELSE testTimeZoneItems[i].name
\* the items a value stands for
findTimeZoneItem(v, m) == {i \in Items : valueOf(i, m) = v}
\* values a page gives the component; Null is an absent attribute
Values ==
    {Null, "", "9000", "Does/Not/Exist"}
        \cup {valueOf(i, m) : i \in Items, m \in Modes}
NoRequest ==
    [op |-> "none", arg |-> Null, item |-> NoItem, value |-> Null, selected |-> NoItem]

----------------------------------------------------------------------------
(* Slots and slotted elements *)

Slots ==
    {"action-bar", "content-bottom", "content-top", "header-actions-start",
     "header-actions-end", "header-content", "header-menu-actions", "fab",
     "footer", "footer-actions", "footer-end", "footer-start"}

\* the slots rendered inside the <header> element
HeaderSlots ==
    {"header-actions-start", "header-content", "header-actions-end",
     "header-menu-actions", "action-bar", "content-top"}

ActionBars == [tag : {"calcite-action-bar"}, layout : Layouts]
Div == [tag |-> "div", layout |-> ""]

\* what a host page slots into s: anything into action-bar, plain content elsewhere
Insertable(s) == IF s = "action-bar" THEN ActionBars \cup {Div} ELSE {Div}

\* the number of elements slotted into the panel
Slotted ==
    Len(assigned["action-bar"]) + Len(assigned["content-bottom"])
    + Len(assigned["content-top"]) + Len(assigned["header-actions-start"])
    + Len(assigned["header-actions-end"]) + Len(assigned["header-content"])
    + Len(assigned["header-menu-actions"]) + Len(assigned["fab"])
    + Len(assigned["footer"]) + Len(assigned["footer-actions"])
    + Len(assigned["footer-end"]) + Len(assigned["footer-start"])

RemoveAt(q, i) == SubSeq(q, 1, i - 1) \o SubSeq(q, i + 1, Len(q))

slotChangeGetAssignedElements(s) == assigned[s]

slotChangeHasAssignedElement(s) == Len(slotChangeGetAssignedElements(s)) # 0

matches(el, selector) == el.tag = selector

----------------------------------------------------------------------------
(* Render methods: the hidden attribute of every container *)

\* header text that looks at the heading only
renderHeaderContentHeadingOnly ==
    ~flags.hasHeaderContent /\ Truthy(heading)

renderHeaderContent ==
    ~flags.hasHeaderContent /\ (Truthy(heading) \/ Truthy(description))

renderActionBar == [actionBarContainer |-> ~flags.hasActionBar]

renderHeaderSlottedContent == [slottedHeaderContent |-> ~flags.hasHeaderContent]

renderHeaderStartActions == [headerActionsStart |-> ~flags.hasStartActions]

renderMenu == [menu |-> ~flags.hasMenuItems]

renderHeaderActionsEnd ==
    LET collapseNode == collapsible
        closeNode == closable
        showContainer ==
            flags.hasEndActions \/ collapseNode \/ closeNode \/ flags.hasMenuItems
    IN  [headerActionsEnd |-> ~showContainer,
         collapseNode |-> collapseNode,
         closeNode |-> closeNode] @@ renderMenu

renderContentTop == [contentTop |-> ~flags.hasContentTop]

\* header element that follows the header container only
renderHeaderNodeIgnoresActionBar ==
    LET headerContentNode == renderHeaderContent
        showHeaderContent ==
            \/ flags.hasHeaderContent
            \/ headerContentNode
            \/ flags.hasStartActions
            \/ flags.hasEndActions
            \/ collapsible
            \/ closable
            \/ flags.hasMenuItems
    IN  [showHeaderContent |-> showHeaderContent,
         header |-> ~showHeaderContent,
         headerContainer |-> ~showHeaderContent,
         headerContentNode |-> headerContentNode]
        @@ renderHeaderStartActions @@ renderHeaderSlottedContent
        @@ renderHeaderActionsEnd @@ renderActionBar @@ renderContentTop

renderHeaderNode ==
    LET headerContentNode == renderHeaderContent
        showHeaderContent ==
            \/ flags.hasHeaderContent
            \/ headerContentNode
            \/ flags.hasStartActions
            \/ flags.hasEndActions
            \/ collapsible
            \/ closable
            \/ flags.hasMenuItems
    IN  [showHeaderContent |-> showHeaderContent,
         header |-> ~(showHeaderContent \/ flags.hasActionBar),
         headerContainer |-> ~showHeaderContent,
         headerContentNode |-> headerContentNode]
        @@ renderHeaderStartActions @@ renderHeaderSlottedContent
        @@ renderHeaderActionsEnd @@ renderActionBar @@ renderContentTop

\* footer whose start/end/actions containers follow their own flags only
renderFooterNodeNoExclusion ==
    LET showFooter ==
            \/ flags.hasFooterStartContent
            \/ flags.hasFooterEndContent
            \/ flags.hasFooterContent
            \/ flags.hasFooterActions
    IN  [footer |-> ~showFooter,
         footerContent |-> ~flags.hasFooterContent,
         footerStart |-> ~flags.hasFooterStartContent,
         footerEnd |-> ~flags.hasFooterEndContent,
         footerActions |-> ~flags.hasFooterActions]

\* footer that forgets the deprecated footer-actions slot
renderFooterNodeNoActions ==
    LET showFooter ==
            \/ flags.hasFooterStartContent
            \/ flags.hasFooterEndContent
            \/ flags.hasFooterContent
    IN  [footer |-> ~showFooter,
         footerContent |-> ~flags.hasFooterContent,
         footerStart |-> flags.hasFooterContent \/ ~flags.hasFooterStartContent,
         footerEnd |-> flags.hasFooterContent \/ ~flags.hasFooterEndContent,
         footerActions |-> flags.hasFooterContent \/ ~flags.hasFooterActions]

renderFooterNode ==
    LET showFooter ==
            \/ flags.hasFooterStartContent
            \/ flags.hasFooterEndContent
            \/ flags.hasFooterContent
            \/ flags.hasFooterActions
    IN  [footer |-> ~showFooter,
         footerContent |-> ~flags.hasFooterContent,
         footerStart |-> flags.hasFooterContent \/ ~flags.hasFooterStartContent,
         footerEnd |-> flags.hasFooterContent \/ ~flags.hasFooterEndContent,
         footerActions |-> flags.hasFooterContent \/ ~flags.hasFooterActions]

renderFab == [fabContainer |-> ~flags.hasFab]

renderContent == [contentWrapper |-> collapsible /\ collapsed] @@ renderFab

\* content-bottom container driven by the flag of content-top
renderContentBottomWrongFlag == [contentBottom |-> ~flags.hasContentTop]

renderContentBottom == [contentBottom |-> ~flags.hasContentBottom]

render ==
    [article |-> isClosed] @@ renderHeaderNode @@ renderContent
    @@ renderContentBottom @@ renderFooterNode

\* the container that holds each named slot
Container(s) ==
    CASE s = "action-bar" -> "actionBarContainer"
      [] s = "content-bottom" -> "contentBottom"
      [] s = "content-top" -> "contentTop"
      [] s = "header-actions-start" -> "headerActionsStart"
      [] s = "header-actions-end" -> "headerActionsEnd"
      [] s = "header-content" -> "slottedHeaderContent"
      [] s = "header-menu-actions" -> "menu"
      [] s = "fab" -> "fabContainer"
      [] s = "footer" -> "footerContent"
      [] s = "footer-actions" -> "footerActions"
      [] s = "footer-end" -> "footerEnd"
      [] s = "footer-start" -> "footerStart"

\* the presence flag each slot's handler writes
Flag(s) ==
    CASE s = "action-bar" -> "hasActionBar"
      [] s = "content-bottom" -> "hasContentBottom"
      [] s = "content-top" -> "hasContentTop"
      [] s = "header-actions-start" -> "hasStartActions"
      [] s = "header-actions-end" -> "hasEndActions"
      [] s = "header-content" -> "hasHeaderContent"
      [] s = "header-menu-actions" -> "hasMenuItems"
      [] s = "fab" -> "hasFab"
      [] s = "footer" -> "hasFooterContent"
      [] s = "footer-actions" -> "hasFooterActions"
      [] s = "footer-end" -> "hasFooterEndContent"
      [] s = "footer-start" -> "hasFooterStartContent"

----------------------------------------------------------------------------
(* Initial state *)

Defaults ==
    /\ isClosed = FALSE
    /\ beforeClose = "none"
    /\ closable = FALSE
    /\ collapsible = FALSE
    /\ collapsed = FALSE
    /\ heading = ""
    /\ description = ""
    /\ pending = <<>>
    /\ rafQueue = 0
    /\ flags = [hasStartActions |-> FALSE, hasEndActions |-> FALSE,
                hasMenuItems |-> FALSE, hasHeaderContent |-> FALSE,
                hasActionBar |-> FALSE, hasContentBottom |-> FALSE,
                hasContentTop |-> FALSE, hasFab |-> FALSE,
                hasFooterActions |-> FALSE, hasFooterContent |-> FALSE,
                hasFooterEndContent |-> FALSE, hasFooterStartContent |-> FALSE]
    /\ assigned = [s \in Slots |-> <<>>]
    /\ slotchange = {}
    /\ panelScrollEl = Null
    /\ scrollHeight = 0
    /\ offsetHeight = 0
    /\ tabindex = Null
    /\ observing = FALSE
    /\ connected = TRUE
    /\ dom = render
    /\ step = "init"
    /\ events = <<>>
    /\ keyEvent = NoKeyEvent
    /\ settled = NoSettled
    /\ clicks = <<>>
    /\ loaded = FALSE
    /\ timeZone = 1
    /\ mode = "offset"
    /\ clearable = FALSE
    /\ inputValue = Null
    /\ selectedItem = NoItem
    /\ request = NoRequest
    /\ prev = [closed |-> closed, isClosed |-> isClosed, tabindex |-> tabindex]

Init == closed = FALSE /\ Defaults

\* a panel created with the closed attribute: watchers do not run for initial values
InitClose == closed \in BOOLEAN /\ Defaults

\* the last MaxClicks entries of a run of clicks
Latest(q) == IF Len(q) > MaxClicks THEN SubSeq(q, Len(q) - MaxClicks + 1, Len(q)) ELSE q

\* every handler is followed by the re-render its state change schedules
Rendered ==
    /\ dom' = render'
    /\ clicks' = IF step' = "collapse"
                 THEN Latest(Append(clicks, [before |-> collapsed,
                                             after |-> collapsed',
                                             events |-> events']))
                 ELSE <<>>
    /\ prev' = [closed |-> closed, isClosed |-> isClosed, tabindex |-> tabindex]

----------------------------------------------------------------------------
(* Close/open sequencer *)

emit(e) == events' = <<e>>
emitNothing == events' = <<>>

\* open() that forgets to clear the flag
openKeepsFlag == UNCHANGED <<isClosed, pending>>

open == isClosed' = FALSE /\ UNCHANGED pending

\* close(), up to its `await beforeClose()`. The suspended call remembers
\* whether a user action made it and whether calcitePanelClose went out with it.
close ==
    LET guard == IF beforeClose = "none" THEN "default" ELSE "custom"
    IN  /\ Len(pending) < MaxPending
        /\ pending' = Append(pending,
               [guard |-> guard,
                user |-> step' \in UserCloseSteps,
                notified |-> events' = <<"calcitePanelClose">>])
        /\ UNCHANGED isClosed

toggleDialog(value) == IF value THEN close ELSE open

\* a write to closed whose watcher runs for every write
writeClosedAlwaysWatched(value) ==
    /\ closed' = value
    /\ toggleDialog(value)

\* a write to the closed property; the watcher runs only when the value changes
writeClosed(value) ==
    /\ closed' = value
    /\ IF value # closed THEN toggleDialog(value) ELSE UNCHANGED <<isClosed, pending>>

\* handleUserClose that leaves the notification to a successful close
handleUserCloseSilent == emitNothing /\ writeClosed(TRUE)

handleUserClose == emit("calcitePanelClose") /\ writeClosed(TRUE)

\* a write by the host page that notifies like a user close
setClosedNotifies(value) ==
    /\ step' = "setClosed"
    /\ IF value THEN emit("calcitePanelClose") ELSE emitNothing
    /\ writeClosed(value)
    /\ UNCHANGED <<rafQueue, propVars, slotVars>>
    /\ keyEvent' = NoKeyEvent /\ settled' = NoSettled
    /\ UNCHANGED scrollVars
    /\ UNCHANGED inputVars
    /\ Rendered

\* the host page sets the closed property
setClosed(value) ==
    /\ step' = "setClosed"
    /\ emitNothing
    /\ writeClosed(value)
    /\ UNCHANGED <<rafQueue, propVars, slotVars>>
    /\ keyEvent' = NoKeyEvent /\ settled' = NoSettled
    /\ UNCHANGED scrollVars
    /\ UNCHANGED inputVars
    /\ Rendered

\* click on the close action, which is rendered only when closable
clickClose ==
    /\ dom.closeNode
    /\ step' = "clickClose"
    /\ handleUserClose
    /\ UNCHANGED <<rafQueue, propVars, slotVars>>
    /\ keyEvent' = NoKeyEvent /\ settled' = NoSettled
    /\ UNCHANGED scrollVars
    /\ UNCHANGED inputVars
    /\ Rendered

\* handler that does not look at event.defaultPrevented
panelKeyDownHandlerAnyEscape(key, prevented) ==
    /\ step' = "panelKeyDownHandler"
    /\ IF closable /\ key = "Escape"
       THEN /\ handleUserClose
            /\ keyEvent' = [key |-> key, was |-> prevented, defaultPrevented |-> TRUE]
       ELSE /\ emitNothing
            /\ UNCHANGED <<closed, isClosed, pending>>
            /\ keyEvent' = [key |-> key, was |-> prevented, defaultPrevented |-> prevented]
    /\ UNCHANGED <<rafQueue, propVars, slotVars>>
    /\ settled' = NoSettled
    /\ UNCHANGED scrollVars
    /\ UNCHANGED inputVars
    /\ Rendered

panelKeyDownHandler(key, prevented) ==
    /\ step' = "panelKeyDownHandler"
    /\ IF closable /\ key = "Escape" /\ ~prevented
       THEN /\ handleUserClose
            /\ keyEvent' = [key |-> key, was |-> prevented, defaultPrevented |-> TRUE]
       ELSE /\ emitNothing
            /\ UNCHANGED <<closed, isClosed, pending>>
            /\ keyEvent' = [key |-> key, was |-> prevented, defaultPrevented |-> prevented]
    /\ UNCHANGED <<rafQueue, propVars, slotVars>>
    /\ settled' = NoSettled
    /\ UNCHANGED scrollVars
    /\ UNCHANGED inputVars
    /\ Rendered

\* the default guard's continuation is a microtask: first in, first out
Resumable(i) ==
    /\ i \in 1..Len(pending)
    /\ pending[i].guard = "default" =>
           \A j \in 1..(i - 1) : pending[j].guard # "default"

\* close() that returns after the await without setting the flag
closeResolvedNoFlag(i) ==
    /\ Resumable(i)
    /\ step' = "closeResolved"
    /\ emitNothing
    /\ pending' = RemoveAt(pending, i)
    /\ settled' = [user |-> pending[i].user, notified |-> pending[i].notified,
                   outcome |-> "resolved"]
    /\ UNCHANGED <<closed, isClosed, rafQueue, propVars, slotVars>>
    /\ keyEvent' = NoKeyEvent
    /\ UNCHANGED scrollVars
    /\ UNCHANGED inputVars
    /\ Rendered

\* close() resumes after its guard resolved
closeResolved(i) ==
    /\ Resumable(i)
    /\ step' = "closeResolved"
    /\ emitNothing
    /\ isClosed' = TRUE
    /\ pending' = RemoveAt(pending, i)
    /\ settled' = [user |-> pending[i].user, notified |-> pending[i].notified,
                   outcome |-> "resolved"]
    /\ UNCHANGED <<closed, rafQueue, propVars, slotVars>>
    /\ keyEvent' = NoKeyEvent
    /\ UNCHANGED scrollVars
    /\ UNCHANGED inputVars
    /\ Rendered

\* catch block that reverts closed at once instead of in an animation frame
closeRejectedSync(i) ==
    /\ Resumable(i)
    /\ pending[i].guard = "custom"
    /\ step' = "closeRejected"
    /\ emitNothing
    /\ closed' = FALSE
    /\ isClosed' = FALSE
    /\ pending' = RemoveAt(pending, i)
    /\ settled' = [user |-> pending[i].user, notified |-> pending[i].notified,
                   outcome |-> "rejected"]
    /\ UNCHANGED <<rafQueue, propVars, slotVars>>
    /\ keyEvent' = NoKeyEvent
    /\ UNCHANGED scrollVars
    /\ UNCHANGED inputVars
    /\ Rendered

\* close() resumes in its catch block after its guard rejected
closeRejected(i) ==
    /\ Resumable(i)
    /\ pending[i].guard = "custom"
    /\ rafQueue < MaxRaf
    /\ step' = "closeRejected"
    /\ emitNothing
    /\ rafQueue' = rafQueue + 1
    /\ pending' = RemoveAt(pending, i)
    /\ settled' = [user |-> pending[i].user, notified |-> pending[i].notified,
                   outcome |-> "rejected"]
    /\ UNCHANGED <<closed, isClosed, propVars, slotVars>>
    /\ keyEvent' = NoKeyEvent
    /\ UNCHANGED scrollVars
    /\ UNCHANGED inputVars
    /\ Rendered

\* the callback of line 326 runs; microtasks have drained by then
animationFrame ==
    /\ rafQueue > 0
    /\ \A i \in 1..Len(pending) : pending[i].guard # "default"
    /\ step' = "animationFrame"
    /\ emitNothing
    /\ rafQueue' = rafQueue - 1
    /\ writeClosed(FALSE)
    /\ UNCHANGED <<propVars, slotVars>>
    /\ keyEvent' = NoKeyEvent /\ settled' = NoSettled
    /\ UNCHANGED scrollVars
    /\ UNCHANGED inputVars
    /\ Rendered

\* collapse that only ever collapses
collapseOnly ==
    /\ dom.collapseNode
    /\ step' = "collapse"
    /\ collapsed' = TRUE
    /\ emit("calcitePanelToggle")
    /\ UNCHANGED <<sequencerVars, slotVars, beforeClose, closable, collapsible,
                   heading, description>>
    /\ keyEvent' = NoKeyEvent /\ settled' = NoSettled
    /\ UNCHANGED scrollVars
    /\ UNCHANGED inputVars
    /\ Rendered

\* click on the collapse action, which is rendered only when collapsible
collapse ==
    /\ dom.collapseNode
    /\ step' = "collapse"
    /\ collapsed' = ~collapsed
    /\ emit("calcitePanelToggle")
    /\ UNCHANGED <<sequencerVars, slotVars, beforeClose, closable, collapsible,
                   heading, description>>
    /\ keyEvent' = NoKeyEvent /\ settled' = NoSettled
    /\ UNCHANGED scrollVars
    /\ UNCHANGED inputVars
    /\ Rendered

----------------------------------------------------------------------------
(* Property writes by the host page *)

\* a step of the host page ("write") or a slotchange handler ("slotchange")
Quiet(name) ==
    /\ step' = name
    /\ emitNothing
    /\ keyEvent' = NoKeyEvent
    /\ settled' = NoSettled

setBeforeClose(g) ==
    /\ g # beforeClose
    /\ beforeClose' = g
    /\ Quiet("write")
    /\ UNCHANGED <<sequencerVars, slotVars, closable, collapsible, collapsed,
                   heading, description>>
    /\ UNCHANGED scrollVars
    /\ UNCHANGED inputVars
    /\ Rendered

setClosable(b) ==
    /\ b # closable
    /\ closable' = b
    /\ Quiet("write")
    /\ UNCHANGED <<sequencerVars, slotVars, beforeClose, collapsible, collapsed,
                   heading, description>>
    /\ UNCHANGED scrollVars
    /\ UNCHANGED inputVars
    /\ Rendered

setCollapsible(b) ==
    /\ b # collapsible
    /\ collapsible' = b
    /\ Quiet("write")
    /\ UNCHANGED <<sequencerVars, slotVars, beforeClose, closable, collapsed,
                   heading, description>>
    /\ UNCHANGED scrollVars
    /\ UNCHANGED inputVars
    /\ Rendered

setCollapsed(b) ==
    /\ b # collapsed
    /\ collapsed' = b
    /\ Quiet("write")
    /\ UNCHANGED <<sequencerVars, slotVars, beforeClose, closable, collapsible,
                   heading, description>>
    /\ UNCHANGED scrollVars
    /\ UNCHANGED inputVars
    /\ Rendered

setHeading(h) ==
    /\ h # heading
    /\ heading' = h
    /\ Quiet("write")
    /\ UNCHANGED <<sequencerVars, slotVars, beforeClose, closable, collapsible,
                   collapsed, description>>
    /\ UNCHANGED scrollVars
    /\ UNCHANGED inputVars
    /\ Rendered

setDescription(d) ==
    /\ d # description
    /\ description' = d
    /\ Quiet("write")
    /\ UNCHANGED <<sequencerVars, slotVars, beforeClose, closable, collapsible,
                   collapsed, heading>>
    /\ UNCHANGED scrollVars
    /\ UNCHANGED inputVars
    /\ Rendered

----------------------------------------------------------------------------
(* Slot content and slotchange handlers *)

\* the host page slots an element; the browser queues a slotchange event
assign(s, el) ==
    /\ Slotted < MaxElements
    /\ Cardinality(slotchange \cup {s}) <= MaxSlotChanges
    /\ assigned' = [assigned EXCEPT ![s] = Append(@, el)]
    /\ slotchange' = slotchange \cup {s}
    /\ Quiet("write")
    /\ UNCHANGED <<sequencerVars, propVars, flags>>
    /\ UNCHANGED scrollVars
    /\ UNCHANGED inputVars
    /\ Rendered

\* the host page removes a slotted element; the browser queues a slotchange event
remove(s, i) ==
    /\ i \in 1..Len(assigned[s])
    /\ Cardinality(slotchange \cup {s}) <= MaxSlotChanges
    /\ assigned' = [assigned EXCEPT ![s] = RemoveAt(@, i)]
    /\ slotchange' = slotchange \cup {s}
    /\ Quiet("write")
    /\ UNCHANGED <<sequencerVars, propVars, flags>>
    /\ UNCHANGED scrollVars
    /\ UNCHANGED inputVars
    /\ Rendered

\* delivery of the slotchange event queued for slot s
SlotChangeEvent(s) ==
    /\ s \in slotchange
    /\ slotchange' = slotchange \ {s}
    /\ Quiet("slotchange")
    /\ UNCHANGED <<sequencerVars, propVars>>

handleHeaderActionsStartSlotChange ==
    /\ SlotChangeEvent("header-actions-start")
    /\ flags' = [flags EXCEPT
           !.hasStartActions = slotChangeHasAssignedElement("header-actions-start")]
    /\ UNCHANGED assigned
    /\ UNCHANGED scrollVars
    /\ UNCHANGED inputVars
    /\ Rendered

handleHeaderActionsEndSlotChange ==
    /\ SlotChangeEvent("header-actions-end")
    /\ flags' = [flags EXCEPT
           !.hasEndActions = slotChangeHasAssignedElement("header-actions-end")]
    /\ UNCHANGED assigned
    /\ UNCHANGED scrollVars
    /\ UNCHANGED inputVars
    /\ Rendered

handleHeaderMenuActionsSlotChange ==
    /\ SlotChangeEvent("header-menu-actions")
    /\ flags' = [flags EXCEPT
           !.hasMenuItems = slotChangeHasAssignedElement("header-menu-actions")]
    /\ UNCHANGED assigned
    /\ UNCHANGED scrollVars
    /\ UNCHANGED inputVars
    /\ Rendered

\* handler that counts every assigned element as an action bar
handleActionBarSlotChangeAnyElement ==
    LET els == slotChangeGetAssignedElements("action-bar")
    IN  /\ SlotChangeEvent("action-bar")
        /\ assigned' = [assigned EXCEPT !["action-bar"] =
               [i \in 1..Len(els) |->
                   IF matches(els[i], "calcite-action-bar")
                   THEN [els[i] EXCEPT !.layout = "horizontal"]
                   ELSE els[i]]]
        /\ flags' = [flags EXCEPT !.hasActionBar = Len(els) # 0]
        /\ UNCHANGED scrollVars
        /\ UNCHANGED inputVars
        /\ Rendered

handleActionBarSlotChange ==
    LET els == slotChangeGetAssignedElements("action-bar")
        actionBars == SelectSeq(els, LAMBDA el : matches(el, "calcite-action-bar"))
    IN  /\ SlotChangeEvent("action-bar")
        /\ assigned' = [assigned EXCEPT !["action-bar"] =
               [i \in 1..Len(els) |->
                   IF matches(els[i], "calcite-action-bar")
                   THEN [els[i] EXCEPT !.layout = "horizontal"]
                   ELSE els[i]]]
        /\ flags' = [flags EXCEPT !.hasActionBar = Len(actionBars) # 0]
        /\ UNCHANGED scrollVars
        /\ UNCHANGED inputVars
        /\ Rendered

handleHeaderContentSlotChange ==
    /\ SlotChangeEvent("header-content")
    /\ flags' = [flags EXCEPT
           !.hasHeaderContent = slotChangeHasAssignedElement("header-content")]
    /\ UNCHANGED assigned
    /\ UNCHANGED scrollVars
    /\ UNCHANGED inputVars
    /\ Rendered

handleFabSlotChange ==
    /\ SlotChangeEvent("fab")
    /\ flags' = [flags EXCEPT !.hasFab = slotChangeHasAssignedElement("fab")]
    /\ UNCHANGED assigned
    /\ UNCHANGED scrollVars
    /\ UNCHANGED inputVars
    /\ Rendered

handleFooterActionsSlotChange ==
    /\ SlotChangeEvent("footer-actions")
    /\ flags' = [flags EXCEPT
           !.hasFooterActions = slotChangeHasAssignedElement("footer-actions")]
    /\ UNCHANGED assigned
    /\ UNCHANGED scrollVars
    /\ UNCHANGED inputVars
    /\ Rendered

\* handler that writes the flag of footer-start
handleFooterEndSlotChangeWrongFlag ==
    /\ SlotChangeEvent("footer-end")
    /\ flags' = [flags EXCEPT
           !.hasFooterStartContent = slotChangeHasAssignedElement("footer-end")]
    /\ UNCHANGED assigned
    /\ UNCHANGED scrollVars
    /\ UNCHANGED inputVars
    /\ Rendered

handleFooterEndSlotChange ==
    /\ SlotChangeEvent("footer-end")
    /\ flags' = [flags EXCEPT
           !.hasFooterEndContent = slotChangeHasAssignedElement("footer-end")]
    /\ UNCHANGED assigned
    /\ UNCHANGED scrollVars
    /\ UNCHANGED inputVars
    /\ Rendered

handleFooterStartSlotChange ==
    /\ SlotChangeEvent("footer-start")
    /\ flags' = [flags EXCEPT
           !.hasFooterStartContent = slotChangeHasAssignedElement("footer-start")]
    /\ UNCHANGED assigned
    /\ UNCHANGED scrollVars
    /\ UNCHANGED inputVars
    /\ Rendered

handleFooterSlotChange ==
    /\ SlotChangeEvent("footer")
    /\ flags' = [flags EXCEPT
           !.hasFooterContent = slotChangeHasAssignedElement("footer")]
    /\ UNCHANGED assigned
    /\ UNCHANGED scrollVars
    /\ UNCHANGED inputVars
    /\ Rendered

contentBottomSlotChangeHandler ==
    /\ SlotChangeEvent("content-bottom")
    /\ flags' = [flags EXCEPT
           !.hasContentBottom = slotChangeHasAssignedElement("content-bottom")]
    /\ UNCHANGED assigned
    /\ UNCHANGED scrollVars
    /\ UNCHANGED inputVars
    /\ Rendered

contentTopSlotChangeHandler ==
    /\ SlotChangeEvent("content-top")
    /\ flags' = [flags EXCEPT
           !.hasContentTop = slotChangeHasAssignedElement("content-top")]
    /\ UNCHANGED assigned
    /\ UNCHANGED scrollVars
    /\ UNCHANGED inputVars
    /\ Rendered

----------------------------------------------------------------------------
(* Scroll affordance: the content wrapper is focusable while it scrolls *)

\* resizeHandler that sets the attribute whatever the measurements are
resizeHandlerAlwaysFocusable(el) ==
    IF \/ el = Null
       \/ typeof(scrollHeight) # "number"
       \/ typeof(offsetHeight) # "number"
    THEN UNCHANGED tabindex
    ELSE tabindex' = "0"

\* resizeHandler without its early return: a comparison with a value that is
\* not a number is false
resizeHandlerNoGuard(el) ==
    LET hasScrollingContent ==
            /\ typeof(scrollHeight) = "number"
            /\ typeof(offsetHeight) = "number"
            /\ scrollHeight > offsetHeight
    IN  tabindex' = IF hasScrollingContent THEN "0" ELSE Null

\* el is this.panelScrollEl as the handler reads it
resizeHandler(el) ==
    IF \/ el = Null
       \/ typeof(scrollHeight) # "number"
       \/ typeof(offsetHeight) # "number"
    THEN UNCHANGED tabindex
    ELSE LET hasScrollingContent == scrollHeight > offsetHeight
         IN  tabindex' = IF hasScrollingContent THEN "0" ELSE Null

\* the ref callback of the content wrapper
setPanelScrollEl(el) ==
    /\ panelScrollEl' = el
    /\ observing' = (el # Null)
    /\ IF el # Null THEN resizeHandler(el) ELSE UNCHANGED tabindex
    /\ Quiet("setPanelScrollEl")
    /\ UNCHANGED <<sequencerVars, propVars, slotVars, scrollHeight, offsetHeight,
                   connected>>
    /\ UNCHANGED inputVars
    /\ Rendered

\* the callback given to createObserver("resize", ...): the observer calls it
\* for a target it observes
resizeObserver ==
    /\ observing
    /\ resizeHandler(panelScrollEl)
    /\ Quiet("resizeObserver")
    /\ UNCHANGED <<sequencerVars, propVars, slotVars, panelScrollEl, scrollHeight,
                   offsetHeight, observing, connected>>
    /\ UNCHANGED inputVars
    /\ Rendered

\* layout gives the content wrapper new measurements
layout(sh, oh) ==
    /\ <<sh, oh>> # <<scrollHeight, offsetHeight>>
    /\ scrollHeight' = sh
    /\ offsetHeight' = oh
    /\ Quiet("layout")
    /\ UNCHANGED <<sequencerVars, propVars, slotVars, panelScrollEl, tabindex,
                   observing, connected>>
    /\ UNCHANGED inputVars
    /\ Rendered

\* disconnectedCallback that leaves the observer attached
disconnectedCallbackKeepsObserver ==
    /\ connected
    /\ connected' = FALSE
    /\ Quiet("disconnectedCallback")
    /\ UNCHANGED <<sequencerVars, propVars, slotVars, panelScrollEl, scrollHeight,
                   offsetHeight, tabindex, observing>>
    /\ UNCHANGED inputVars
    /\ Rendered

disconnectedCallback ==
    /\ connected
    /\ connected' = FALSE
    /\ observing' = FALSE
    /\ Quiet("disconnectedCallback")
    /\ UNCHANGED <<sequencerVars, propVars, slotVars, panelScrollEl, scrollHeight,
                   offsetHeight, tabindex>>
    /\ UNCHANGED inputVars
    /\ Rendered

connectedCallback ==
    /\ ~connected
    /\ connected' = TRUE
    /\ Quiet("connectedCallback")
    /\ UNCHANGED <<sequencerVars, propVars, slotVars, panelScrollEl, scrollHeight,
                   offsetHeight, tabindex, observing>>
    /\ UNCHANGED inputVars
    /\ Rendered

----------------------------------------------------------------------------
(* calcite-input-time-zone, as the end-to-end test exercises it *)

\* the operation, the value or the item it names, and the state it finds
Request(op, arg, item) ==
    request' = [op |-> op, arg |-> arg, item |-> item,
                value |-> inputValue, selected |-> selectedItem]

\* the cleared component: no value, no selected item
cleared == inputValue' = "" /\ selectedItem' = NoItem

\* initialization that takes the supplied value as it is
setContentKeepsValue(tz, m, c, v) ==
    /\ ~loaded
    /\ loaded' = TRUE
    /\ timeZone' = tz
    /\ mode' = m
    /\ clearable' = c
    /\ IF v = "" /\ c
       THEN cleared
       ELSE /\ inputValue' = IF v = Null THEN valueOf(tz, m) ELSE v
            /\ selectedItem' \in
                   IF findTimeZoneItem(inputValue', m) # {}
                   THEN findTimeZoneItem(inputValue', m) ELSE {NoItem}
    /\ Request("setContent", v, NoItem)
    /\ UNCHANGED panelVars

\* page.emulateTimezone(tz) and page.setContent(<calcite-input-time-zone
\* mode=m clearable=c value=v>): the component initializes. A value that
\* stands for no item gives way to the user's time zone; an empty value stays
\* when the component is clearable.
setContent(tz, m, c, v) ==
    /\ ~loaded
    /\ loaded' = TRUE
    /\ timeZone' = tz
    /\ mode' = m
    /\ clearable' = c
    /\ IF v = "" /\ c
       THEN cleared
       ELSE /\ inputValue' = IF findTimeZoneItem(v, m) # {} THEN v ELSE valueOf(tz, m)
            /\ selectedItem' \in findTimeZoneItem(inputValue', m)
    /\ Request("setContent", v, NoItem)
    /\ UNCHANGED panelVars

\* setProperty that clears whether or not the component is clearable
setPropertyClears(v) ==
    /\ loaded
    /\ IF v \in {"", Null}
       THEN cleared
       ELSE IF findTimeZoneItem(v, mode) # {} /\ v # inputValue
            THEN inputValue' = v /\ selectedItem' \in findTimeZoneItem(v, mode)
            ELSE UNCHANGED <<inputValue, selectedItem>>
    /\ Request("setProperty", v, NoItem)
    /\ UNCHANGED <<panelVars, loaded, timeZone, mode, clearable>>

\* input.setProperty("value", v): an empty value or null clears a clearable
\* component and is ignored otherwise; a value that stands for no item is
\* ignored
setProperty(v) ==
    /\ loaded
    /\ IF v \in {"", Null}
       THEN IF clearable THEN cleared ELSE UNCHANGED <<inputValue, selectedItem>>
       ELSE IF findTimeZoneItem(v, mode) # {} /\ v # inputValue
            THEN inputValue' = v /\ selectedItem' \in findTimeZoneItem(v, mode)
            ELSE UNCHANGED <<inputValue, selectedItem>>
    /\ Request("setProperty", v, NoItem)
    /\ UNCHANGED <<panelVars, loaded, timeZone, mode, clearable>>

\* click that deselects the selected item in every component
clickToggles(i) ==
    /\ loaded
    /\ IF i = selectedItem
       THEN cleared
       ELSE inputValue' = valueOf(i, mode) /\ selectedItem' = i
    /\ Request("click", Null, i)
    /\ UNCHANGED <<panelVars, loaded, timeZone, mode, clearable>>

\* a click on item i of the open list. The test does not click the selected
\* item of a clearable component: it then stays or is deselected.
click(i) ==
    /\ loaded
    /\ IF i = selectedItem
       THEN \/ UNCHANGED <<inputValue, selectedItem>>
            \/ clearable /\ cleared
       ELSE inputValue' = valueOf(i, mode) /\ selectedItem' = i
    /\ Request("click", Null, i)
    /\ UNCHANGED <<panelVars, loaded, timeZone, mode, clearable>>

\* input.press("Escape") on the focused component
pressEscape ==
    /\ loaded
    /\ IF clearable THEN cleared ELSE UNCHANGED <<inputValue, selectedItem>>
    /\ Request("press", "Escape", NoItem)
    /\ UNCHANGED <<panelVars, loaded, timeZone, mode, clearable>>

----------------------------------------------------------------------------
(* Specifications *)

SetClosed == \E value \in BOOLEAN : setClosed(value)
KeyDown == \E key \in Keys, prevented \in BOOLEAN : panelKeyDownHandler(key, prevented)
CloseResolved == \E i \in 1..MaxPending + 1 : closeResolved(i)
CloseRejected == \E i \in 1..MaxPending + 1 : closeRejected(i)
SetBeforeClose == \E g \in Guards : setBeforeClose(g)
SetClosable == \E b \in BOOLEAN : setClosable(b)
SetCollapsible == \E b \in BOOLEAN : setCollapsible(b)
SetCollapsed == \E b \in BOOLEAN : setCollapsed(b)
SetHeading == \E h \in Headings : setHeading(h)
SetDescription == \E d \in Descriptions : setDescription(d)
Assign == \E s \in Slots : \E el \in Insertable(s) : assign(s, el)
Remove == \E s \in Slots : \E i \in 1..MaxElements + 1 : remove(s, i)
AssignHeader == \E s \in HeaderSlots : \E el \in Insertable(s) : assign(s, el)
RemoveHeader == \E s \in HeaderSlots : \E i \in 1..MaxElements + 1 : remove(s, i)

\* the close/open sequencer and the header actions
NextClose ==
    \/ SetClosed
    \/ clickClose
    \/ KeyDown
    \/ CloseResolved
    \/ CloseRejected
    \/ animationFrame
    \/ collapse
    \/ SetBeforeClose
    \/ SetClosable
    \/ SetCollapsible
    \/ SetCollapsed

SpecClose == InitClose /\ [][NextClose]_vars

\* slotted content, presence flags and the regions rendered from them
NextSlots ==
    \/ Assign
    \/ Remove
    \/ handleHeaderActionsStartSlotChange
    \/ handleHeaderActionsEndSlotChange
    \/ handleHeaderMenuActionsSlotChange
    \/ handleActionBarSlotChange
    \/ handleHeaderContentSlotChange
    \/ handleFabSlotChange
    \/ handleFooterActionsSlotChange
    \/ handleFooterEndSlotChange
    \/ handleFooterStartSlotChange
    \/ handleFooterSlotChange
    \/ contentBottomSlotChangeHandler
    \/ contentTopSlotChangeHandler
    \/ SetClosable
    \/ SetCollapsible

SpecSlots == Init /\ [][NextSlots]_vars

\* the header: its slots and the properties that decide what it shows
NextHeader ==
    \/ AssignHeader
    \/ RemoveHeader
    \/ handleHeaderActionsStartSlotChange
    \/ handleHeaderActionsEndSlotChange
    \/ handleHeaderMenuActionsSlotChange
    \/ handleActionBarSlotChange
    \/ handleHeaderContentSlotChange
    \/ contentTopSlotChangeHandler
    \/ SetClosable
    \/ SetCollapsible
    \/ SetHeading
    \/ SetDescription

SpecHeader == Init /\ [][NextHeader]_vars

SetPanelScrollEl == \E el \in {Null, ContentWrapper} : setPanelScrollEl(el)
Layout == \E sh \in Measurements, oh \in Measurements : layout(sh, oh)

\* the scroll affordance monitor over the life of the panel
NextResize ==
    \/ SetPanelScrollEl
    \/ Layout
    \/ resizeObserver
    \/ disconnectedCallback
    \/ connectedCallback

SpecResize == Init /\ [][NextResize]_vars

SetContent ==
    \E tz \in Items, m \in Modes, c \in BOOLEAN, v \in Values : setContent(tz, m, c, v)
SetProperty == \E v \in Values : setProperty(v)
Click == \E i \in Items : click(i)

\* one test page with a calcite-input-time-zone
NextInput ==
    \/ SetContent
    \/ SetProperty
    \/ Click
    \/ pressEscape

SpecInput == Init /\ [][NextInput]_vars

----------------------------------------------------------------------------
(* Close/open sequencer: properties *)

UserCloseStep ==
    \/ step = "clickClose"
    \/ /\ step = "panelKeyDownHandler"
       /\ closable /\ keyEvent.key = "Escape" /\ ~keyEvent.was

\* C1: when close() resumes after its guard (beforeClose or the default
\* guard) resolved, isClosed is true and the article is rendered hidden.
C1_ResolvedGuardCloses ==
    step = "closeResolved" => isClosed /\ dom.article

C1_Witness ==
    /\ step = "closeResolved" /\ settled.outcome = "resolved"
    /\ closed /\ ~prev.isClosed /\ isClosed /\ dom.article

\* C2: when the guard rejects, the catch block changes neither closed nor
\* isClosed and leaves an animation-frame callback queued; when the callback
\* runs closed is false, and with closed having stayed true until then
\* isClosed is false too and the article is shown (had closed been set to
\* false in between, the callback changes nothing).
C2_RejectedGuardReverts ==
    /\ step = "closeRejected" =>
           /\ closed = prev.closed
           /\ isClosed = prev.isClosed
           /\ rafQueue > 0
    /\ step = "animationFrame" =>
           /\ ~closed
           /\ prev.closed => ~isClosed /\ ~dom.article
           /\ ~prev.closed => isClosed = prev.isClosed

C2_Witness ==
    /\ step = "animationFrame"
    /\ prev.closed /\ ~prev.isClosed
    /\ ~closed /\ ~isClosed

\* C3: a user close (click on the close action, qualifying Escape press)
\* leaves closed true and emits calcitePanelClose in the same handler; the
\* close() call it makes is still awaiting its guard then, and whichever way
\* that guard settles later the notification has already gone out.
C3_UserCloseNotifiesFirst ==
    /\ UserCloseStep => closed /\ events = <<"calcitePanelClose">>
    /\ \A i \in 1..Len(pending) : pending[i].user => pending[i].notified
    /\ settled.user => settled.notified

C3_Witness ==
    /\ step = "closeRejected"
    /\ settled.user /\ settled.notified /\ settled.outcome = "rejected"

\* C4: whenever a close guard is pending, isClosed is false.
C4_PendingGuardMeansOpen ==
    Len(pending) > 0 => ~isClosed

\* C5: whenever closed changes from true to false, isClosed is false after
\* that same step, whatever guards are pending.
C5_OpenIsSynchronous ==
    (prev.closed /\ ~closed) => ~isClosed /\ ~dom.article

C5_Witness ==
    /\ prev.closed /\ ~closed
    /\ prev.isClosed /\ ~isClosed
    /\ Len(pending) > 0

----------------------------------------------------------------------------
(* Slot presence and composition: properties *)

\* the slots whose handler only records presence
FlaggedSlots == Slots \ {"action-bar"}

HasContent(s) == Len(assigned[s]) # 0

FooterPartSlots == {"footer-start", "footer-end", "footer-actions"}

\* C6: for each of the eleven slots with a plain presence flag, once the
\* slotchange event queued for it has been handled the flag says whether the
\* slot has at least one assigned element.
C6_FlagsReflectContent ==
    \A s \in FlaggedSlots :
        s \notin slotchange => flags[Flag(s)] = HasContent(s)

C6_Witness ==
    /\ step = "slotchange"
    /\ \E s, t \in FlaggedSlots \ slotchange :
        /\ HasContent(s) /\ flags[Flag(s)]
        /\ ~HasContent(t) /\ ~flags[Flag(t)]

\* C7 as stated: once a slotchange event has been handled, the container of
\* every slot region with no event outstanding is hidden exactly when the slot
\* has no content.
C7_HiddenIffEmpty ==
    step = "slotchange" =>
        \A s \in Slots \ slotchange :
            dom[Container(s)] = ~HasContent(s)

\* C7 amended: that holds for header-actions-start, header-content,
\* header-menu-actions, fab, footer, content-top and content-bottom. The
\* action-bar container is shown exactly when a calcite-action-bar is
\* assigned; footer-start, footer-end and footer-actions are also hidden while
\* hasFooterContent is set; the header-actions-end container also stays
\* visible while collapsible, closable or hasMenuItems is set.
C7_HiddenFollowsContent ==
    \A s \in Slots \ slotchange :
        dom[Container(s)] =
            CASE s = "action-bar" ->
                     ~\E i \in 1..Len(assigned[s]) :
                         assigned[s][i].tag = "calcite-action-bar"
              [] s \in FooterPartSlots ->
                     ~HasContent(s) \/ flags.hasFooterContent
              [] s = "header-actions-end" ->
                     /\ ~HasContent(s)
                     /\ ~collapsible /\ ~closable /\ ~flags.hasMenuItems
              [] OTHER -> ~HasContent(s)

C7_Witness ==
    /\ step = "slotchange"
    /\ slotchange = {}
    /\ HasContent("footer") /\ ~dom.footerContent
    /\ HasContent("footer-end") /\ dom.footerEnd
    /\ ~HasContent("fab") /\ dom.fabContainer

\* C8 as stated: the header container is visible exactly when one of header
\* content, start actions, end actions, collapsible, closable, menu items holds.
C8_HeaderVisibleIffSix ==
    ~dom.headerContainer =
        \/ flags.hasHeaderContent
        \/ flags.hasStartActions
        \/ flags.hasEndActions
        \/ collapsible
        \/ closable
        \/ flags.hasMenuItems

\* C8 amended: the header container is visible exactly when one of those six
\* holds or the heading or the description is a non-empty string.
C8_HeaderVisibleIffAny ==
    ~dom.headerContainer =
        \/ flags.hasHeaderContent
        \/ flags.hasStartActions
        \/ flags.hasEndActions
        \/ collapsible
        \/ closable
        \/ flags.hasMenuItems
        \/ Truthy(heading)
        \/ Truthy(description)

C8_Witness ==
    /\ ~dom.headerContainer
    /\ Truthy(description) /\ ~Truthy(heading)
    /\ ~flags.hasHeaderContent /\ ~flags.hasStartActions /\ ~flags.hasEndActions
    /\ ~collapsible /\ ~closable /\ ~flags.hasMenuItems

\* C9: in every render with hasFooterContent set, the footer-start,
\* footer-end and footer-actions containers are hidden whatever their own
\* flags; so the generic footer container is never visible together with one
\* of them.
C9_FooterPartsHiddenByFooter ==
    /\ flags.hasFooterContent =>
           dom.footerStart /\ dom.footerEnd /\ dom.footerActions
    /\ ~(~dom.footerContent /\
           (~dom.footerStart \/ ~dom.footerEnd \/ ~dom.footerActions))

C9_Witness ==
    /\ flags.hasFooterContent /\ flags.hasFooterStartContent
    /\ ~dom.footerContent /\ dom.footerStart

\* C10: the footer element is visible exactly when at least one of
\* hasFooterContent, hasFooterStartContent, hasFooterEndContent,
\* hasFooterActions is set.
C10_FooterVisibleIffAnyFlag ==
    ~dom.footer =
        \/ flags.hasFooterContent
        \/ flags.hasFooterStartContent
        \/ flags.hasFooterEndContent
        \/ flags.hasFooterActions

C10_Witness ==
    /\ ~dom.footer
    /\ flags.hasFooterActions
    /\ ~flags.hasFooterContent /\ ~flags.hasFooterStartContent
    /\ ~flags.hasFooterEndContent

----------------------------------------------------------------------------
(* Scroll affordance: properties *)

Measured ==
    /\ panelScrollEl # Null
    /\ typeof(scrollHeight) = "number"
    /\ typeof(offsetHeight) = "number"

\* C11: after a resize notification that finds the scroll element with both
\* measurements, the element has tabindex "0" when scrollHeight exceeds
\* offsetHeight and no tabindex attribute otherwise, whatever the attribute was
\* before the notification.
C11_TabindexFollowsScrollability ==
    step = "resizeObserver" /\ Measured =>
        tabindex = IF scrollHeight > offsetHeight THEN "0" ELSE Null

\* a notification removed the attribute an earlier one had set
C11_Witness ==
    /\ step = "resizeObserver"
    /\ Measured
    /\ prev.tabindex = "0"
    /\ tabindex = Null
    /\ scrollHeight = offsetHeight

\* C15: disconnectedCallback leaves the resize observer without a target, and
\* while it has none no step other than setPanelScrollEl gives it one or
\* changes the tabindex attribute of the scroll region.
C15_DetachedObserverIsSilent ==
    [][/\ step' = "disconnectedCallback" => ~observing'
       /\ ~observing /\ step' # "setPanelScrollEl" =>
              ~observing' /\ tabindex' = tabindex]_vars

\* a detached panel whose content came to overflow, and no notification made
\* the scroll region focusable
C15_Witness ==
    /\ ~connected
    /\ ~observing
    /\ step = "layout"
    /\ Measured
    /\ scrollHeight > offsetHeight
    /\ tabindex = Null

\* C20: a resize notification that finds no scroll element, or a scrollHeight
\* or offsetHeight that is not a number, changes neither the tabindex attribute
\* nor any other state of the panel.
C20_UnmeasuredResizeIsNoOp ==
    [][step' = "resizeObserver" /\ ~Measured =>
          UNCHANGED <<tabindex, panelScrollEl, scrollHeight, offsetHeight,
                      observing, connected, sequencerVars, propVars, slotVars,
                      dom>>]_vars

\* a notification found a measurement that is not a number and kept the
\* attribute an earlier one had set
C20_Witness ==
    /\ step = "resizeObserver"
    /\ panelScrollEl # Null
    /\ typeof(scrollHeight) # "number"
    /\ prev.tabindex = "0"
    /\ tabindex = "0"

----------------------------------------------------------------------------
(* Collapse: properties *)

\* C12: a click on the collapse action, which exists only while collapsible
\* is true, inverts collapsed and emits calcitePanelToggle exactly once; two
\* consecutive clicks bring collapsed back to its value before the first and
\* emit exactly two notifications.
C12_CollapseInverts ==
    /\ step = "collapse" =>
           /\ collapsible
           /\ clicks # <<>>
           /\ clicks[Len(clicks)].after = ~clicks[Len(clicks)].before
           /\ collapsed = clicks[Len(clicks)].after
           /\ events = <<"calcitePanelToggle">>
    /\ \A i \in 1..(Len(clicks) - 1) :
           /\ clicks[i + 1].before = clicks[i].after
           /\ clicks[i + 1].after = clicks[i].before
           /\ clicks[i].events \o clicks[i + 1].events =
                  <<"calcitePanelToggle", "calcitePanelToggle">>

\* two consecutive clicks on an expanded panel
C12_Witness ==
    /\ step = "collapse"
    /\ Len(clicks) >= 2
    /\ clicks[Len(clicks) - 1].before = FALSE
    /\ ~collapsed

\* C13: while collapsed is true the content wrapper, which holds the default
\* slot and the fab, is rendered hidden.
C13_CollapsedHidesContent == collapsed => dom.contentWrapper

----------------------------------------------------------------------------
(* Keyboard close: properties *)

\* the key press the handler closes on
ClosingKey == closable /\ keyEvent.key = "Escape" /\ ~keyEvent.was

\* C14: a key press sets closed to true, emits calcitePanelClose and marks the
\* event default-prevented exactly when closable is true, the key is Escape
\* and the event was not default-prevented before; any other key press leaves
\* closed and isClosed as they were, emits nothing and leaves the event's
\* default-prevented mark as it was.
C14_EscapeClosesWhenClosable ==
    step = "panelKeyDownHandler" =>
        IF ClosingKey
        THEN /\ closed
             /\ events = <<"calcitePanelClose">>
             /\ keyEvent.defaultPrevented
        ELSE /\ closed = prev.closed
             /\ isClosed = prev.isClosed
             /\ events = <<>>
             /\ keyEvent.defaultPrevented = keyEvent.was

\* Escape closed an open, closable panel
C14_Witness ==
    /\ step = "panelKeyDownHandler"
    /\ ClosingKey
    /\ ~prev.closed
    /\ closed
    /\ events = <<"calcitePanelClose">>

----------------------------------------------------------------------------
(* Action bar: properties *)

IsActionBar(el) == matches(el, "calcite-action-bar")

\* C18: once the slotchange event of the action-bar slot is handled,
\* hasActionBar is true exactly when at least one assigned element is a
\* calcite-action-bar, every assigned calcite-action-bar has layout
\* "horizontal", and every other assigned element is as it was slotted.
C18_ActionBarsCountedAndLaidOut ==
    "action-bar" \notin slotchange =>
        LET els == assigned["action-bar"]
        IN  /\ flags.hasActionBar <=> \E i \in 1..Len(els) : IsActionBar(els[i])
            /\ \A i \in 1..Len(els) :
                   IF IsActionBar(els[i])
                   THEN els[i].layout = "horizontal"
                   ELSE els[i] = Div

\* the handler found an action bar next to another element
C18_Witness ==
    /\ step = "slotchange"
    /\ "action-bar" \notin slotchange
    /\ flags.hasActionBar
    /\ \E i, j \in 1..Len(assigned["action-bar"]) :
           /\ IsActionBar(assigned["action-bar"][i])
           /\ assigned["action-bar"][j] = Div

\* what shows the header container: hasActionBar is not among it
HeaderContainerShown ==
    \/ flags.hasHeaderContent
    \/ Truthy(heading)
    \/ Truthy(description)
    \/ flags.hasStartActions
    \/ flags.hasEndActions
    \/ collapsible
    \/ closable
    \/ flags.hasMenuItems

\* C19: the header container is hidden or shown whatever hasActionBar is, the
\* action-bar container is hidden exactly when hasActionBar is false, and the
\* header element is hidden exactly when both containers are hidden.
C19_HeaderAndActionBarIndependent ==
    /\ dom.headerContainer = ~HeaderContainerShown
    /\ dom.actionBarContainer = ~flags.hasActionBar
    /\ dom.header = (dom.headerContainer /\ dom.actionBarContainer)

\* an action bar alone: the header shows, its header container stays hidden
C19_Witness ==
    /\ flags.hasActionBar
    /\ dom.headerContainer
    /\ ~dom.actionBarContainer
    /\ ~dom.header

----------------------------------------------------------------------------
(* calcite-input-time-zone: properties *)

\* C16: a calcite-input-time-zone that is not clearable always has a selected
\* item, and a click on the selected item or a write of the empty string to
\* value leaves value and the selected item as they were.
C16_SelectionPersists ==
    loaded /\ ~clearable =>
        /\ selectedItem # NoItem
        /\ \/ request.op = "click" /\ request.item = request.selected
           \/ request.op = "setProperty" /\ request.arg = ""
           => inputValue = request.value /\ selectedItem = request.selected

\* the selected item was clicked
C16_Witness ==
    /\ loaded
    /\ ~clearable
    /\ request.op = "click"
    /\ request.item = request.selected
    /\ selectedItem = request.item
    /\ inputValue = "-420"

\* the value the user's own time zone stands for, and its items
UserValue == valueOf(timeZone, mode)

----------------------------------------------------------------------------
(* Close/open sequencer: quiescence, guard calls and notifications *)

\* no close() call awaits its guard and no revert frame is scheduled
Quiescent == Len(pending) = 0 /\ rafQueue = 0

\* C21: whenever no close guard is pending and no revert animation frame is
\* scheduled, isClosed equals closed.
C21_QuiescentConsistency == Quiescent => isClosed = closed

\* C22: a step invokes the close guard, once, exactly when it changes closed
\* from false to true; a user close while closed is already true and an
\* opening invoke no guard.
C22_GuardOncePerClose ==
    [][/\ Len(pending') <= Len(pending) + 1
       /\ Len(pending') = Len(pending) + 1 <=> ~closed /\ closed']_vars

\* a user close found closed already true, its guard pending: no second guard
C22_Witness ==
    /\ UserCloseStep
    /\ prev.closed
    /\ closed
    /\ Len(pending) = 1
    /\ ~isClosed

\* C23: calcitePanelClose is emitted once by a click on the close action and
\* once by a qualifying Escape press, and by no other step: not by a write to
\* closed, a guard settling, the revert frame or an opening.
C23_OnlyUserCloseNotifies ==
    IF UserCloseStep
    THEN events = <<"calcitePanelClose">>
    ELSE \A i \in 1..Len(events) : events[i] # "calcitePanelClose"

\* the host page closed the panel: no notification
C23_Witness ==
    /\ step = "setClosed"
    /\ ~prev.closed
    /\ closed
    /\ events = <<>>

----------------------------------------------------------------------------
(* Content top: properties *)

\* C24: while the content-top slot has content (hasContentTop) and the panel
\* is not closed, neither the content-top container nor the header element
\* around it is hidden.
C24_ContentTopDisplayed ==
    flags.hasContentTop /\ ~closed /\ ~isClosed =>
        ~dom.contentTop /\ ~dom.header

====
